---- MODULE Spec2Model ----
(***************************************************************************)
(* Genka: batch fetch-and-persist pipeline.                                *)
(*                                                                         *)
(* ResourceLoader.LoadLangFiles / LoadDataFiles (src/src/data/loader.go)   *)
(* start one goroutine per identifier, join on a WaitGroup, scan the       *)
(* per-index errors and hand the payloads to FileManager.SaveLangFiles /   *)
(* SaveDataFiles, which go through FileManager.saveFiles                   *)
(* (src/unnamed/part_003): validatePath, then one goroutine per item that  *)
(* validates, writes and records its outcome under a mutex.                *)
(*                                                                         *)
(* Bytes are sequences of JSON tokens, errors are records, the disk is a   *)
(* set of directories and a partial function from paths to bytes.          *)
(*                                                                         *)
(* One behaviour is one call of the public API.  What earlier calls leave  *)
(* behind is in the initial disk: a call depends on earlier ones through   *)
(* the directories and files only.  The callers that repeat a call         *)
(* (SpecReplay, SpecGetFile) keep a summary of the first call in prev.     *)
(*                                                                         *)
(* ResourceLoader.GetFile runs loadFileFromUrl step by step, so that the   *)
(* response body can be followed from client.Do to the deferred Close; the *)
(* goroutines of a batch run it as one step.  The catalog of data files    *)
(* (src/unnamed/part_001) has a caller of its own, SpecCatalog.            *)
(*                                                                         *)
(* The two wait groups are their counts, fwg and swg: wg.Add(1) before a   *)
(* goroutine starts, the deferred wg.Done() as its last step, wg.Wait()    *)
(* over when the count is zero.  SpecFair is the program under a fair      *)
(* scheduler, for the question whether a call returns.                     *)
(*                                                                         *)
(* src/src/data/file_manager.go and src/unnamed/part_002 are earlier       *)
(* revisions of the file manager and the loader; loader.go calls           *)
(* SaveDataFiles and LoadFile, which only part_003 has, so part_003 is the *)
(* file manager modelled here.                                             *)
(***************************************************************************)
EXTENDS Naturals, Sequences, FiniteSets, TLC

(***************************************************************************)
(* Bounds of the model.                                                    *)
(***************************************************************************)
\* longest batch handed to one call; the batches are drawn from the first
\* MaxBatch identifiers of each catalog
MaxBatch == 2

(***************************************************************************)
(* Catalogs and URLs.                                                      *)
(***************************************************************************)
LanguageMapFilesUrl == "https://gitlab.com/Dimbreath/AnimeGameData/-/raw/master/TextMap/"
GenshinDataFilesUrl == "https://gitlab.com/Dimbreath/AnimeGameData/-/raw/master/ExcelBinOutput/"

\* the languages of DownLoadAllLanguageFiles, in its order
AllLanguages ==
    << "chs", "cht", "de", "en", "es", "fr", "id", "jp", "kr", "pt", "ru", "th", "vi" >>

\* strings.ToUpper on the language codes
ToUpper(lang) ==
    CASE lang = "chs" -> "CHS" [] lang = "cht" -> "CHT" [] lang = "de" -> "DE"
      [] lang = "en" -> "EN"   [] lang = "es" -> "ES"   [] lang = "fr" -> "FR"
      [] lang = "id" -> "ID"   [] lang = "jp" -> "JP"   [] lang = "kr" -> "KR"
      [] lang = "pt" -> "PT"   [] lang = "ru" -> "RU"   [] lang = "th" -> "TH"
      [] lang = "vi" -> "VI"   [] OTHER -> lang

\* the GenshinDataFileName constants
CharacterDataFile == "AvatarExcelConfigData"
CharacterProfileFile == "FetterInfoExcelConfigData"
CharacterCostumeFile == "AvatarCostumeExcelConfigData"
CharacterSkillDepotFile == "AvatarSkillDepotExcelConfigData"
CharacterSkillFile == "AvatarSkillExcelConfigData"
CharacterTalentFile == "ProudSkillExcelConfigData"
CharacterConstellationFile == "AvatarTalentExcelConfigData"
CharacterAscensionFile == "AvatarPromoteExcelConfigData"
CharacterStatCurveFile == "AvatarCurveExcelConfigData"
CharacterReleaseInfoFile == "AvatarCodexExcelConfigData"
ArtifactSetBonusFile == "EquipAffixExcelConfigData"
ArtifactDataFile == "ReliquaryExcelConfigData"
ArtifactMainStatFile == "ReliquaryLevelExcelConfigData"
ArtifactSubStatFile == "ReliquaryAffixExcelConfigData"
ArtifactSetDataFile == "ReliquarySetExcelConfigData"
ArtifactRarityDataFile == "ReliquaryCodexExcelConfigData"
WeaponDataFile == "WeaponExcelConfigData"
WeaponAscensionFile == "WeaponPromoteExcelConfigData"
WeaponStatCurveFile == "WeaponCurveExcelConfigData"
WeaponReleaseInfoFile == "WeaponCodexExcelConfigData"
TextMapFile == "ManualTextMapConfigData"
TravelerDataFile == "AvatarHeroEntityExcelConfigData"
ArchonDataFile == "TrialAvatarFetterDataConfigData"
MaterialDataFile == "MaterialExcelConfigData"
FriendshipRewardFile == "FetterCharacterCardExcelConfigData"
RewardDataFile == "RewardExcelConfigData"
ProfilePictureFile == "ProfilePictureExcelConfigData"
TheaterDifficultyFile == "RoleCombatDifficultyExcelConfigData"

\* a switch that has lost the case of the weapon files
IsValid_NoWeapons(f) ==
    f \in {CharacterDataFile, CharacterProfileFile, CharacterCostumeFile,
            CharacterSkillDepotFile, CharacterSkillFile, CharacterTalentFile,
            CharacterConstellationFile, CharacterAscensionFile,
            CharacterStatCurveFile, CharacterReleaseInfoFile,
            ArtifactSetBonusFile, ArtifactDataFile, ArtifactMainStatFile,
            ArtifactSubStatFile, ArtifactSetDataFile, ArtifactRarityDataFile,
            TextMapFile, TravelerDataFile, ArchonDataFile, MaterialDataFile,
            FriendshipRewardFile, RewardDataFile, ProfilePictureFile,
            TheaterDifficultyFile}

\* GenshinDataFileName.IsValid: the switch over the constants
IsValid(f) ==
    f \in {CharacterDataFile, CharacterProfileFile, CharacterCostumeFile,
            CharacterSkillDepotFile, CharacterSkillFile, CharacterTalentFile,
            CharacterConstellationFile, CharacterAscensionFile,
            CharacterStatCurveFile, CharacterReleaseInfoFile, WeaponDataFile,
            WeaponAscensionFile, WeaponStatCurveFile, WeaponReleaseInfoFile,
            ArtifactSetBonusFile, ArtifactDataFile, ArtifactMainStatFile,
            ArtifactSubStatFile, ArtifactSetDataFile, ArtifactRarityDataFile,
            TextMapFile, TravelerDataFile, ArchonDataFile, MaterialDataFile,
            FriendshipRewardFile, RewardDataFile, ProfilePictureFile,
            TheaterDifficultyFile}

GetGenshinDataFileNames ==
    << CharacterDataFile, CharacterProfileFile, CharacterCostumeFile,
       CharacterSkillDepotFile, CharacterSkillFile, CharacterTalentFile,
       CharacterConstellationFile, CharacterAscensionFile,
       CharacterStatCurveFile, CharacterReleaseInfoFile, WeaponDataFile,
       WeaponAscensionFile, WeaponStatCurveFile, WeaponReleaseInfoFile,
       ArtifactSetBonusFile, ArtifactDataFile, ArtifactMainStatFile,
       ArtifactSubStatFile, ArtifactSetDataFile, ArtifactRarityDataFile,
       TextMapFile, TravelerDataFile, ArchonDataFile, MaterialDataFile,
       FriendshipRewardFile, RewardDataFile, ProfilePictureFile,
       TheaterDifficultyFile >>

\* the URL a LoadLangFiles goroutine builds for its language
LangFileUrl(lang) ==
    LanguageMapFilesUrl \o "TextMap" \o ToUpper(lang) \o ".json?ref_type=heads&inline=false"

\* getDataFileUrl
getDataFileUrl(file) ==
    GenshinDataFilesUrl \o file \o ".json?ref_type=heads&inline=false"

Categories == {"langs", "data"}

UrlOf(cat, id) == IF cat = "langs" THEN LangFileUrl(id) ELSE getDataFileUrl(id)

\* FileManager.langPath / FileManager.dataPath under the root directory
DirectoryPath == "data"
CategoryDir(cat) == DirectoryPath \o "/" \o cat

\* filepath.Join(path, fmt.Sprintf("%s.json", name))
FilePath(dir, name) == dir \o "/" \o name \o ".json"

(***************************************************************************)
(* Inputs the callers are modelled to pass.                                *)
(***************************************************************************)
Min(a, b) == IF a < b THEN a ELSE b

IdsOf(cat) ==
    IF cat = "langs"
    THEN {AllLanguages[k] : k \in 1..Min(MaxBatch, Len(AllLanguages))}
    ELSE {GetGenshinDataFileNames[k] : k \in 1..Min(MaxBatch, Len(GetGenshinDataFileNames))}

Range(s) == {s[k] : k \in DOMAIN s}

SeqsUpTo(S, n) == UNION {[1..k -> S] : k \in 0..n}

Reverse(s) == [k \in 1..Len(s) |-> s[Len(s) + 1 - k]]

\* the first MaxBatch identifiers of a catalog, in its order
CatalogPrefix(cat) ==
    IF cat = "langs"
    THEN SubSeq(AllLanguages, 1, Min(MaxBatch, Len(AllLanguages)))
    ELSE SubSeq(GetGenshinDataFileNames, 1, Min(MaxBatch, Len(GetGenshinDataFileNames)))

\* batches: ordered, duplicate free; the shorter ones in every order, the
\* longest in the order of the catalog and in the opposite order
Batches(cat) ==
    {s \in SeqsUpTo(IdsOf(cat), MaxBatch - 1) : Cardinality(Range(s)) = Len(s)}
      \cup {CatalogPrefix(cat), Reverse(CatalogPrefix(cat))}

\* byte buffers, as sequences of JSON tokens
ObjX1 == << "{", "\"x\"", ":", "1", "}" >>
Arr2 == << "[", "1", ",", "2", "]" >>
NotJson == << "not-json" >>
NoBytes == << >>

\* the payloads of the model, and those of them that are well-formed JSON
Payloads == {ObjX1, Arr2, NotJson}
WellFormed(data) == data \in {ObjX1, Arr2}

(***************************************************************************)
(* isValidJSON: json.Unmarshal(data, &js) == nil, on token sequences.      *)
(* ParseValue returns the position after the value that starts at pos, or  *)
(* 0 when no value starts there.                                           *)
(***************************************************************************)
IsNumber(t) == t \in {"0", "1", "2"}
IsString(t) == t \in {"\"x\"", "\"y\""}
IsLiteral(t) == t \in {"true", "false", "null"}

RECURSIVE ParseValue(_, _), ParseElems(_, _), ParseMembers(_, _)

ParseValue(s, pos) ==
    IF pos = 0 \/ pos > Len(s) THEN 0
    ELSE IF IsNumber(s[pos]) \/ IsString(s[pos]) \/ IsLiteral(s[pos]) THEN pos + 1
    ELSE IF s[pos] = "["
         THEN IF pos + 1 <= Len(s) /\ s[pos + 1] = "]" THEN pos + 2
              ELSE ParseElems(s, pos + 1)
    ELSE IF s[pos] = "{"
         THEN IF pos + 1 <= Len(s) /\ s[pos + 1] = "}" THEN pos + 2
              ELSE ParseMembers(s, pos + 1)
    ELSE 0

\* value ("," value)* "]"
ParseElems(s, pos) ==
    LET after == ParseValue(s, pos) IN
    IF after = 0 \/ after > Len(s) THEN 0
    ELSE IF s[after] = "]" THEN after + 1
    ELSE IF s[after] = "," THEN ParseElems(s, after + 1)
    ELSE 0

\* string ":" value ("," string ":" value)* "}"
ParseMembers(s, pos) ==
    IF pos + 1 > Len(s) \/ ~IsString(s[pos]) \/ s[pos + 1] # ":" THEN 0
    ELSE LET after == ParseValue(s, pos + 2) IN
         IF after = 0 \/ after > Len(s) THEN 0
         ELSE IF s[after] = "}" THEN after + 1
         ELSE IF s[after] = "," THEN ParseMembers(s, after + 1)
         ELSE 0

\* a validator that only looks for a non-empty buffer
isValidJSON_NonEmpty(data) == Len(data) > 0

isValidJSON(data) == ParseValue(data, 1) = Len(data) + 1

(***************************************************************************)
(* Errors.                                                                 *)
(***************************************************************************)
Nil == [kind |-> "nil"]

\* fmt.Errorf("invalid JSON data for file: %s", name)
InvalidJSONError(name) == [kind |-> "invalid JSON data for file", name |-> name]

\* fmt.Errorf("failed to save file: %w", err), err the *PathError of os.WriteFile
SaveFileError(op, filePath) ==
    [kind |-> "failed to save file", cause |-> [kind |-> op, path |-> filePath]]

\* fmt.Errorf("failed to create directory: %w", err), err from os.MkdirAll
CreateDirError(path) ==
    [kind |-> "failed to create directory", cause |-> [kind |-> "mkdir", path |-> path]]

\* fmt.Errorf("failed to load lang file %s: %w", langs[i], err) and its data twin
LoadFileError(cat, id, err) ==
    [kind |-> IF cat = "langs" THEN "failed to load lang file"
                               ELSE "failed to load data file",
     name |-> id, cause |-> err]

\* fmt.Errorf("failed to save lang files: %w", err) and its data twin
SaveFilesError(cat, err) ==
    [kind |-> IF cat = "langs" THEN "failed to save lang files"
                               ELSE "failed to save data files",
     cause |-> err]

(***************************************************************************)
(* The remote host and loadFileFromUrl.                                    *)
(***************************************************************************)
\* resp.Status of the answers the remote host gives
StatusOK == "200 OK"
StatusNotFound == "404 Not Found"

\* what client.Do and io.ReadAll can come back with for one GET: no response
\* at all, a response whose body cannot be read, a 200 with the file, with
\* garbage or with an empty body, or a 404 whose body is the host's error
\* document (well-formed JSON that is not the file asked for)
Responses ==
    {[kind |-> "transport", status |-> "", body |-> NoBytes],
     [kind |-> "read", status |-> StatusOK, body |-> NoBytes]}
      \cup {[kind |-> "ok", status |-> StatusOK, body |-> b] : b \in {ObjX1, NotJson, NoBytes}}
      \cup {[kind |-> "ok", status |-> StatusNotFound, body |-> Arr2]}

\* loadFileFromUrl, given what the network did with its request
loadFileFromUrl(resp) ==
    IF resp.kind = "transport"
    THEN [data |-> NoBytes, err |-> [kind |-> "error downloading data file"]]
    ELSE IF resp.kind = "read"
    THEN [data |-> NoBytes, err |-> [kind |-> "error reading lang file"]]
    ELSE [data |-> NoBytes \o resp.body, err |-> Nil]

(***************************************************************************)
(* The file system.                                                        *)
(***************************************************************************)
\* a validatePath that creates the directory without looking: os.Mkdir fails
\* on a directory that exists
validatePath_NoStat(path, createIfNotExists, ds) ==
    IF path \in ds
    THEN {[err |-> [kind |-> "mkdir", path |-> path], dirs |-> ds]}
    ELSE {[err |-> Nil, dirs |-> ds \cup {path}],
          [err |-> [kind |-> "mkdir", path |-> path], dirs |-> ds]}

\* validatePath(path, createIfNotExists) on a disk whose directories are ds:
\* the error it returns and the directories afterwards
validatePath(path, createIfNotExists, ds) ==
    \* os.Stat succeeded, or failed with an error that is not IsNotExist
    {[err |-> Nil, dirs |-> ds]}
      \cup
    \* os.Stat reported IsNotExist
    (IF path \in ds THEN {}
     ELSE IF createIfNotExists
          THEN {[err |-> Nil, dirs |-> ds \cup {path}],
                [err |-> [kind |-> "mkdir", path |-> path], dirs |-> ds]}
          ELSE {[err |-> [kind |-> "stat", path |-> path], dirs |-> ds]})

\* fs with the file at filePath holding data
WithFile(fs, filePath, data) ==
    [p \in DOMAIN fs \cup {filePath} |-> IF p = filePath THEN data ELSE fs[p]]

\* the log of GETs after client.Do has sent one more for url
Sent(log, url) ==
    WithFile(log, url, IF url \in DOMAIN log THEN log[url] + 1 ELSE 1)

\* os.WriteFile(filePath, data, 0644): open with O_CREATE|O_TRUNC, write, close.
\* It can fail before the file is touched or after it was truncated.
WriteFile(fs, ds, dir, filePath, data) ==
    IF dir \notin ds
    THEN {[err |-> [kind |-> "open", path |-> filePath], files |-> fs]}
    ELSE {[err |-> Nil, files |-> WithFile(fs, filePath, data)],
          [err |-> [kind |-> "open", path |-> filePath], files |-> fs],
          [err |-> [kind |-> "write", path |-> filePath],
           files |-> WithFile(fs, filePath, NoBytes)]}

(***************************************************************************)
(* State.                                                                  *)
(***************************************************************************)
VARIABLES
    dirs,       \* the directories that exist
    files,      \* path -> bytes, for the files that exist
    lpc,        \* LoadLangFiles/LoadDataFiles: "idle", "fetch", "saving", "done"
    lcat,       \* which of the two it is: "langs" or "data"
    lids,       \* langs / dataFiles
    ftask,      \* fetch goroutine idx: "run", "got", "done"
    flocal,     \* fetch goroutine idx: its data, err
    result,     \* result[idx]
    errs,       \* errs[idx]
    lret,       \* the error LoadLangFiles/LoadDataFiles returned
    served,     \* url -> what the network answered to the GET of this call
    fwg,        \* the loader's wg: the count of its sync.WaitGroup
    spc,        \* saveFiles: "idle", "tasks", "done"
    scat,       \* the category saved
    snames,     \* names
    sdata,      \* data
    stask,      \* save goroutine i: "start", "lockErr", "setErr", "lockPath",
                \*                   "setPath", "unlock", "done"
    terr,       \* save goroutine i: the error it is about to record
    swg,        \* saveFiles' wg: the count of its sync.WaitGroup
    mu,         \* holder of the mutex, 0 when free
    saveErr,    \* saveErr
    filePaths,  \* filePaths
    sret,       \* what SaveLangFiles/SaveDataFiles returned
    wres,       \* save goroutine i: "none", "invalid", "ok", "open", "write"
    errLog,     \* the errors assigned to saveErr, in order
    dirs0,      \* the directories when the save call started
    files0,     \* the files when the save call started
    prev,       \* the previous call of a replay, << >> when there is none
    requests,   \* url -> how many GETs client.Do has sent for it
    cf,         \* a caller of the catalog: the name it asks about
    cvalid,     \* what IsValid told it: "true", "false", "none" before the call
    cnames,     \* what GetGenshinDataFileNames gave it, << >> before the call
    gpc,        \* GetFile: "idle", "load", "newreq", "do", "read", "close",
                \*          "fetched", "saving", "done"
    gfile,      \* file
    gdl,        \* downloadIfMissing
    gdata,      \* data
    gerr,       \* err
    gresp,      \* what client.Do and io.ReadAll come back with
    gbody,      \* resp.Body: "none", "open", "closed"
    gcloses,    \* how often Body.Close() has run
    gprinted,   \* whether Body.Close() failed and the failure was printed
    gret,       \* what GetFile returned
    gdisk0      \* the directories and files when GetFile was called

diskVars == << dirs, files >>
loadVars == << lpc, lcat, lids, ftask, flocal, result, errs, lret, served,
               requests, fwg >>
saveVars == << spc, scat, snames, sdata, stask, terr, mu, saveErr, filePaths,
               sret, wres, errLog, dirs0, files0, swg >>
catVars == << cf, cvalid, cnames >>
getVars == << gpc, gfile, gdl, gdata, gerr, gresp, gbody, gcloses, gprinted,
              gret, gdisk0 >>
vars == << dirs, files, lpc, lcat, lids, ftask, flocal, result, errs,
           lret, served, spc, scat, snames, sdata, stask, terr, mu, saveErr,
           filePaths, sret, wres, errLog, dirs0, files0, prev, requests,
           cf, cvalid, cnames, gpc, gfile, gdl, gdata, gerr, gresp, gbody,
           gcloses, gprinted, gret, gdisk0, fwg, swg >>

EmptyMap == << >>
NoRet == [nilMap |-> TRUE, paths |-> EmptyMap, err |-> Nil]

LoadIdle ==
    /\ lpc = "idle" /\ lcat = "langs" /\ lids = << >> /\ ftask = << >>
    /\ flocal = << >> /\ result = << >> /\ errs = << >> /\ lret = Nil
    /\ served = EmptyMap /\ requests = EmptyMap /\ fwg = 0

SaveIdle ==
    /\ spc = "idle" /\ scat = "langs" /\ snames = << >> /\ sdata = << >>
    /\ stask = << >> /\ terr = << >> /\ mu = 0 /\ saveErr = Nil
    /\ filePaths = EmptyMap /\ sret = NoRet /\ wres = << >> /\ errLog = << >>
    /\ dirs0 = {} /\ files0 = EmptyMap /\ swg = 0

\* the disk of a fresh checkout: NewFileManager has created the root
\* directory and nothing else is there
FreshDisk == [dirs |-> {}, files |-> EmptyMap]

\* the disk an earlier run has left after downloading every file
MirrorDisk ==
    [dirs |-> {CategoryDir(cat) : cat \in Categories},
     files |-> [p \in UNION {{FilePath(CategoryDir(cat), id) : id \in IdsOf(cat)} :
                                  cat \in Categories}
                  |-> ObjX1]]

\* nobody has asked the catalog anything
CatalogIdle == cf = "" /\ cvalid = "none" /\ cnames = << >>

NoResponse == [kind |-> "none", status |-> "", body |-> NoBytes]
NoData == [data |-> NoBytes, err |-> Nil]

GetIdle ==
    /\ gpc = "idle" /\ gfile = "" /\ gdl = FALSE /\ gdata = NoBytes /\ gerr = Nil
    /\ gresp = NoResponse /\ gbody = "none" /\ gcloses = 0 /\ gprinted = FALSE
    /\ gret = NoData /\ gdisk0 = FreshDisk

\* NewFileManager and NewResourceLoader have run, on a fresh disk or on the
\* disk of an earlier run
Init ==
    /\ \E disk \in {FreshDisk, MirrorDisk} : dirs = disk.dirs /\ files = disk.files
    /\ LoadIdle /\ SaveIdle /\ CatalogIdle /\ GetIdle /\ prev = << >>

(***************************************************************************)
(* FileManager.saveFiles through SaveLangFiles / SaveDataFiles.            *)
(***************************************************************************)
\* a goroutine that reads the loop variable after the loop has moved on
TaskPayload_SharedLoopVar(data, i) == data[Len(data)]

\* data[i] as goroutine i reads it
TaskPayload(data, i) == data[i]

\* SaveLangFiles/SaveDataFiles up to the launch of the goroutines: the names
\* are converted to strings, validatePath runs, one goroutine per name starts
\* after its wg.Add(1).
SaveFilesBegin(cat, names, data) ==
    \E v \in validatePath(CategoryDir(cat), TRUE, dirs) :
        /\ dirs' = v.dirs
        /\ files' = files
        /\ scat' = cat /\ snames' = names /\ sdata' = data
        /\ dirs0' = dirs /\ files0' = files
        /\ mu' = 0 /\ saveErr' = Nil /\ filePaths' = EmptyMap /\ errLog' = << >>
        /\ IF v.err # Nil
           THEN /\ spc' = "done"
                /\ sret' = [nilMap |-> TRUE, paths |-> EmptyMap,
                            err |-> CreateDirError(CategoryDir(cat))]
                /\ stask' = << >> /\ terr' = << >> /\ wres' = << >>
                /\ swg' = 0
           ELSE /\ spc' = "tasks"
                /\ sret' = NoRet
                /\ stask' = [i \in 1..Len(names) |-> "start"]
                /\ terr' = [i \in 1..Len(names) |-> Nil]
                /\ wres' = [i \in 1..Len(names) |-> "none"]
                /\ swg' = Len(names)

\* no call has been made yet
Idle == lpc = "idle" /\ spc = "idle" /\ gpc = "idle"

\* a caller (the tests, GetFile) calls SaveLangFiles or SaveDataFiles
SaveCall ==
    /\ Idle
    /\ \E cat \in Categories : \E names \in Batches(cat) :
         \E data \in [1..Len(names) -> Payloads] :
            SaveFilesBegin(cat, names, data)
    /\ UNCHANGED << loadVars, prev, catVars, getVars >>

\* a goroutine that gives up without validating or writing once a sibling
\* has recorded a failure
TaskRun_SkipAfterFailure(i) ==
    /\ spc = "tasks" /\ i \in DOMAIN stask /\ stask[i] = "start"
    /\ IF saveErr # Nil
       THEN /\ terr' = [terr EXCEPT ![i] = saveErr]
            /\ stask' = [stask EXCEPT ![i] = "lockErr"]
            /\ wres' = wres
            /\ files' = files
       ELSE LET name == snames[i]
                filePath == FilePath(CategoryDir(scat), name)
                payload == TaskPayload(sdata, i)
            IN IF ~isValidJSON(payload)
               THEN /\ terr' = [terr EXCEPT ![i] = InvalidJSONError(name)]
                    /\ stask' = [stask EXCEPT ![i] = "lockErr"]
                    /\ wres' = [wres EXCEPT ![i] = "invalid"]
                    /\ files' = files
               ELSE \E w \in WriteFile(files, dirs, CategoryDir(scat), filePath, payload) :
                    /\ files' = w.files
                    /\ IF w.err # Nil
                       THEN /\ terr' = [terr EXCEPT ![i] =
                                           SaveFileError(w.err.kind, w.err.path)]
                            /\ stask' = [stask EXCEPT ![i] = "lockErr"]
                            /\ wres' = [wres EXCEPT ![i] = w.err.kind]
                       ELSE /\ terr' = terr
                            /\ stask' = [stask EXCEPT ![i] = "lockPath"]
                            /\ wres' = [wres EXCEPT ![i] = "ok"]
    /\ UNCHANGED << dirs, loadVars, spc, scat, snames, sdata, mu, saveErr,
                    filePaths, sret, errLog, dirs0, files0, prev, catVars, getVars, swg >>

\* goroutine i up to its first mu.Lock(): isValidJSON, then os.WriteFile
TaskRun(i) ==
    /\ spc = "tasks" /\ i \in DOMAIN stask /\ stask[i] = "start"
    /\ LET name == snames[i]
           filePath == FilePath(CategoryDir(scat), name)
           payload == TaskPayload(sdata, i)
       IN IF ~isValidJSON(payload)
          THEN /\ terr' = [terr EXCEPT ![i] = InvalidJSONError(name)]
               /\ stask' = [stask EXCEPT ![i] = "lockErr"]
               /\ wres' = [wres EXCEPT ![i] = "invalid"]
               /\ files' = files
          ELSE \E w \in WriteFile(files, dirs, CategoryDir(scat), filePath, payload) :
               /\ files' = w.files
               /\ IF w.err # Nil
                  THEN /\ terr' = [terr EXCEPT ![i] =
                                      SaveFileError(w.err.kind, w.err.path)]
                       /\ stask' = [stask EXCEPT ![i] = "lockErr"]
                       /\ wres' = [wres EXCEPT ![i] = w.err.kind]
                  ELSE /\ terr' = terr
                       /\ stask' = [stask EXCEPT ![i] = "lockPath"]
                       /\ wres' = [wres EXCEPT ![i] = "ok"]
    /\ UNCHANGED << dirs, loadVars, spc, scat, snames, sdata, mu, saveErr,
                    filePaths, sret, errLog, dirs0, files0, prev, catVars, getVars, swg >>

\* a goroutine that goes on to its assignment without waiting for the mutex
TaskLock_NoWait(i) ==
    /\ spc = "tasks" /\ i \in DOMAIN stask /\ stask[i] \in {"lockErr", "lockPath"}
    /\ mu' = i
    /\ stask' = [stask EXCEPT ![i] = IF stask[i] = "lockErr" THEN "setErr" ELSE "setPath"]
    /\ UNCHANGED << diskVars, loadVars, spc, scat, snames, sdata, terr, saveErr,
                    filePaths, sret, wres, errLog, dirs0, files0, prev, catVars, getVars, swg >>

\* mu.Lock()
TaskLock(i) ==
    /\ spc = "tasks" /\ i \in DOMAIN stask /\ stask[i] \in {"lockErr", "lockPath"}
    /\ mu = 0
    /\ mu' = i
    /\ stask' = [stask EXCEPT ![i] = IF stask[i] = "lockErr" THEN "setErr" ELSE "setPath"]
    /\ UNCHANGED << diskVars, loadVars, spc, scat, snames, sdata, terr, saveErr,
                    filePaths, sret, wres, errLog, dirs0, files0, prev, catVars, getVars, swg >>

\* saveErr = fmt.Errorf(...)
TaskSetErr(i) ==
    /\ spc = "tasks" /\ i \in DOMAIN stask /\ stask[i] = "setErr"
    /\ saveErr' = terr[i]
    /\ errLog' = Append(errLog, terr[i])
    /\ stask' = [stask EXCEPT ![i] = "unlock"]
    /\ UNCHANGED << diskVars, loadVars, spc, scat, snames, sdata, terr, mu,
                    filePaths, sret, wres, dirs0, files0, prev, catVars, getVars, swg >>

\* filePaths[name] = filePath
TaskSetPath(i) ==
    /\ spc = "tasks" /\ i \in DOMAIN stask /\ stask[i] = "setPath"
    /\ filePaths' = WithFile(filePaths, snames[i], FilePath(CategoryDir(scat), snames[i]))
    /\ stask' = [stask EXCEPT ![i] = "unlock"]
    /\ UNCHANGED << diskVars, loadVars, spc, scat, snames, sdata, terr, mu,
                    saveErr, sret, wres, errLog, dirs0, files0, prev, catVars, getVars, swg >>

\* a goroutine whose wg.Done() is its last statement instead of a deferred
\* call: the early returns after a failure leave without it
TaskUnlock_DoneNotDeferred(i) ==
    /\ spc = "tasks" /\ i \in DOMAIN stask /\ stask[i] = "unlock"
    /\ mu' = 0
    /\ swg' = IF terr[i] # Nil THEN swg ELSE swg - 1
    /\ stask' = [stask EXCEPT ![i] = "done"]
    /\ UNCHANGED << diskVars, loadVars, spc, scat, snames, sdata, terr, saveErr,
                    filePaths, sret, wres, errLog, dirs0, files0, prev, catVars, getVars >>

\* mu.Unlock(), return, the deferred wg.Done()
TaskUnlock(i) ==
    /\ spc = "tasks" /\ i \in DOMAIN stask /\ stask[i] = "unlock"
    /\ mu' = 0
    /\ swg' = swg - 1
    /\ stask' = [stask EXCEPT ![i] = "done"]
    /\ UNCHANGED << diskVars, loadVars, spc, scat, snames, sdata, terr, saveErr,
                    filePaths, sret, wres, errLog, dirs0, files0, prev, catVars, getVars >>

\* a saveFiles that hands out the paths it has even when it reports an error
SaveResult_PathsWithError(err, paths) ==
    [nilMap |-> FALSE, paths |-> paths, err |-> err]

\* what saveFiles returns once wg.Wait() is over
SaveResult(err, paths) ==
    IF err # Nil
    THEN [nilMap |-> TRUE, paths |-> EmptyMap, err |-> err]
    ELSE [nilMap |-> FALSE, paths |-> paths, err |-> Nil]

\* wg.Wait() may return: the count of the wait group is zero
SaveJoined == swg = 0

\* wg.Wait() returns; saveFiles and its wrapper return
SaveReturn ==
    /\ spc = "tasks" /\ SaveJoined
    /\ sret' = SaveResult(saveErr, filePaths)
    /\ spc' = "done"
    /\ UNCHANGED << diskVars, loadVars, scat, snames, sdata, stask, terr, mu,
                    saveErr, filePaths, wres, errLog, dirs0, files0, prev, catVars, getVars, swg >>

(***************************************************************************)
(* ResourceLoader.LoadLangFiles / LoadDataFiles.                           *)
(***************************************************************************)
\* the call itself: result and errs are made, one goroutine per index starts
\* after its wg.Add(1)
LoadBegin(cat, ids) ==
    /\ lcat' = cat /\ lids' = ids
    /\ ftask' = [i \in 1..Len(ids) |-> "run"]
    /\ flocal' = [i \in 1..Len(ids) |-> [data |-> NoBytes, err |-> Nil]]
    /\ result' = [i \in 1..Len(ids) |-> NoBytes]
    /\ errs' = [i \in 1..Len(ids) |-> Nil]
    /\ lpc' = "fetch" /\ lret' = Nil /\ served' = EmptyMap /\ requests' = EmptyMap
    /\ fwg' = Len(ids)

\* LoadLangFiles or LoadDataFiles is called with a batch of its catalog
LoadCall ==
    /\ Idle
    /\ \E cat \in Categories : \E ids \in Batches(cat) : LoadBegin(cat, ids)
    /\ UNCHANGED << diskVars, saveVars, prev, catVars, getVars >>

\* goroutines that read the loop variable after the loop has ended
TaskIdent_SharedLoopVar(ids, idx) == ids[Len(ids)]

\* lang := langs[idx] / file := dataFiles[idx]
TaskIdent(ids, idx) == ids[idx]

\* goroutine idx: builds its URL and runs loadFileFromUrl
FetchDo(idx) ==
    /\ lpc = "fetch" /\ idx \in DOMAIN ftask /\ ftask[idx] = "run"
    /\ LET url == UrlOf(lcat, TaskIdent(lids, idx)) IN
       \E resp \in Responses :
          /\ served' = WithFile(served, url, resp)
          /\ requests' = Sent(requests, url)
          /\ flocal' = [flocal EXCEPT ![idx] = loadFileFromUrl(resp)]
    /\ ftask' = [ftask EXCEPT ![idx] = "got"]
    /\ UNCHANGED << diskVars, lpc, lcat, lids, result, errs, lret, saveVars, prev,
                    catVars, getVars, fwg >>

\* a loader that appends the outcomes in the order the goroutines finish
StoreIndex_CompletionOrder(idx) ==
    1 + Cardinality({j \in DOMAIN ftask : ftask[j] = "done"})

\* the slot goroutine idx stores into
StoreIndex(idx) == idx

\* goroutine idx: result[idx] = data; errs[idx] = err; the deferred wg.Done()
FetchStore(idx) ==
    /\ lpc = "fetch" /\ idx \in DOMAIN ftask /\ ftask[idx] = "got"
    /\ result' = [result EXCEPT ![StoreIndex(idx)] = flocal[idx].data]
    /\ errs' = [errs EXCEPT ![StoreIndex(idx)] = flocal[idx].err]
    /\ ftask' = [ftask EXCEPT ![idx] = "done"]
    /\ fwg' = fwg - 1
    /\ UNCHANGED << diskVars, lpc, lcat, lids, flocal, lret, served, requests,
                    saveVars, prev, catVars, getVars >>

\* a join that gives up on the first failure that was stored
FetchJoined_FailFast ==
    \/ \A i \in DOMAIN ftask : ftask[i] = "done"
    \/ \E i \in DOMAIN ftask : ftask[i] = "done" /\ errs[i] # Nil

\* a wait that is over as soon as one goroutine has called wg.Done()
FetchJoined_FirstDone == fwg < Len(lids)

\* wg.Wait() may return: the count of the wait group is zero
FetchJoined == fwg = 0

\* a scan that keeps the last error instead of returning at the first
FirstError_Last(es) ==
    IF \E i \in DOMAIN es : es[i] # Nil
    THEN CHOOSE i \in DOMAIN es : es[i] # Nil /\ \A j \in (i + 1)..Len(es) : es[j] = Nil
    ELSE 0

\* a scan that never looks at the last slot
FirstError_SkipLast(es) ==
    IF \E i \in 1..(Len(es) - 1) : es[i] # Nil
    THEN CHOOSE i \in 1..(Len(es) - 1) : es[i] # Nil /\ \A j \in 1..(i - 1) : es[j] = Nil
    ELSE 0

\* for i, err := range errs { if err != nil { return ... } }: the index the
\* scan returns at, 0 when it runs through
FirstError(es) ==
    IF \E i \in DOMAIN es : es[i] # Nil
    THEN CHOOSE i \in DOMAIN es : es[i] # Nil /\ \A j \in 1..(i - 1) : es[j] = Nil
    ELSE 0

\* after wg.Wait(): the scan of errs, then the call of SaveLangFiles/SaveDataFiles
LoadJoin ==
    /\ lpc = "fetch" /\ FetchJoined
    /\ LET k == FirstError(errs) IN
       IF k # 0
       THEN /\ lret' = LoadFileError(lcat, lids[k], errs[k])
            /\ lpc' = "done"
            /\ UNCHANGED << diskVars, saveVars >>
       ELSE /\ SaveFilesBegin(lcat, lids, result)
            /\ lpc' = "saving"
            /\ lret' = lret
    /\ UNCHANGED << lcat, lids, ftask, flocal, result, errs, served, requests,
                    prev, catVars, getVars, fwg >>

\* SaveLangFiles/SaveDataFiles has returned: wrap its error or return nil
LoadReturn ==
    /\ lpc = "saving" /\ spc = "done"
    /\ lret' = IF sret.err # Nil THEN SaveFilesError(lcat, sret.err) ELSE Nil
    /\ lpc' = "done"
    /\ UNCHANGED << diskVars, lcat, lids, ftask, flocal, result, errs, served,
                    requests, saveVars, prev, catVars, getVars, fwg >>

(***************************************************************************)
(* The program: one call of the public API, its goroutines interleaved.    *)
(***************************************************************************)
Next ==
    \/ SaveCall
    \/ LoadCall
    \/ \E i \in 1..MaxBatch : TaskRun(i)
    \/ \E i \in 1..MaxBatch : TaskLock(i)
    \/ \E i \in 1..MaxBatch : TaskSetErr(i)
    \/ \E i \in 1..MaxBatch : TaskSetPath(i)
    \/ \E i \in 1..MaxBatch : TaskUnlock(i)
    \/ SaveReturn
    \/ \E i \in 1..MaxBatch : FetchDo(i)
    \/ \E i \in 1..MaxBatch : FetchStore(i)
    \/ LoadJoin
    \/ LoadReturn

Spec == Init /\ [][Next]_vars

(***************************************************************************)
(* The program under a fair scheduler.  Whether a call returns depends on  *)
(* which of its goroutines fail, not on the order of the names, on what    *)
(* the payloads say or on what the disk held before, so the calls are made *)
(* on a fresh checkout, take their batch in the order of the catalog and   *)
(* give each item a well-formed or a broken payload.                       *)
(***************************************************************************)
\* the batches in the order of the catalog
OrderedBatches(cat) ==
    {SubSeq(CatalogPrefix(cat), 1, n) : n \in 0..Len(CatalogPrefix(cat))}

\* SaveLangFiles or SaveDataFiles is called with such a batch
SaveCallOrdered ==
    /\ Idle
    /\ \E cat \in Categories : \E names \in OrderedBatches(cat) :
         \E data \in [1..Len(names) -> {ObjX1, NotJson}] :
            SaveFilesBegin(cat, names, data)
    /\ UNCHANGED << loadVars, prev, catVars, getVars >>

\* LoadLangFiles or LoadDataFiles is called with such a batch
LoadCallOrdered ==
    /\ Idle
    /\ \E cat \in Categories : \E ids \in OrderedBatches(cat) : LoadBegin(cat, ids)
    /\ UNCHANGED << diskVars, saveVars, prev, catVars, getVars >>

NextFair ==
    \/ SaveCallOrdered
    \/ LoadCallOrdered
    \/ \E i \in 1..MaxBatch : TaskRun(i)
    \/ \E i \in 1..MaxBatch : TaskLock(i)
    \/ \E i \in 1..MaxBatch : TaskSetErr(i)
    \/ \E i \in 1..MaxBatch : TaskSetPath(i)
    \/ \E i \in 1..MaxBatch : TaskUnlock(i)
    \/ SaveReturn
    \/ \E i \in 1..MaxBatch : FetchDo(i)
    \/ \E i \in 1..MaxBatch : FetchStore(i)
    \/ LoadJoin
    \/ LoadReturn

\* the Go scheduler and the I/O the goroutines wait for: a goroutine that can
\* take its next step takes it in the end, every HTTP request and every file
\* write comes back, a free mutex is handed to a goroutine that waits for it,
\* and the caller goes on once its wg.Wait() can return
Fairness ==
    /\ \A i \in 1..MaxBatch :
          /\ WF_vars(FetchDo(i)) /\ WF_vars(FetchStore(i))
          /\ WF_vars(TaskRun(i)) /\ WF_vars(TaskLock(i))
          /\ WF_vars(TaskSetErr(i)) /\ WF_vars(TaskSetPath(i))
          /\ WF_vars(TaskUnlock(i))
    /\ WF_vars(LoadJoin) /\ WF_vars(SaveReturn) /\ WF_vars(LoadReturn)

\* the calls are made on a fresh checkout
InitFair == Init /\ dirs = FreshDisk.dirs /\ files = FreshDisk.files

SpecFair == InitFair /\ [][NextFair]_vars /\ Fairness

(***************************************************************************)
(* A caller that passes names of its own making: langs is a []string and   *)
(* GenshinDataFileName a string type, so a batch can hold a name that no   *)
(* catalog has.                                                            *)
(***************************************************************************)
UnlistedName(cat) == IF cat = "langs" THEN "xx" ELSE "NoSuchExcelConfigData"

\* the batches that hold the unlisted name of their category
UnlistedBatches(cat) ==
    {s \in SeqsUpTo(IdsOf(cat) \cup {UnlistedName(cat)}, MaxBatch) :
        Cardinality(Range(s)) = Len(s) /\ UnlistedName(cat) \in Range(s)}

LoadCallUnlisted ==
    /\ Idle
    /\ \E cat \in Categories : \E ids \in UnlistedBatches(cat) : LoadBegin(cat, ids)
    /\ UNCHANGED << diskVars, saveVars, prev, catVars, getVars >>

NextUnlisted ==
    \/ LoadCallUnlisted
    \/ \E i \in 1..MaxBatch : FetchDo(i)
    \/ \E i \in 1..MaxBatch : FetchStore(i)
    \/ LoadJoin
    \/ \E i \in 1..MaxBatch : TaskRun(i)
    \/ \E i \in 1..MaxBatch : TaskLock(i)
    \/ \E i \in 1..MaxBatch : TaskSetErr(i)
    \/ \E i \in 1..MaxBatch : TaskSetPath(i)
    \/ \E i \in 1..MaxBatch : TaskUnlock(i)
    \/ SaveReturn
    \/ LoadReturn

SpecUnlisted == Init /\ [][NextUnlisted]_vars

(***************************************************************************)
(* ResourceLoader.GetFile: LoadFile, and for a missing file that is to be  *)
(* downloaded loadFileFromUrl step by step (http.NewRequest, client.Do,    *)
(* io.ReadAll, the deferred Body.Close) and SaveDataFiles of the one file. *)
(***************************************************************************)
\* a name whose URL url.Parse rejects: "%ZZ" is not a percent escape
MalformedName == "%ZZExcelConfigData"

\* the files GetFile is asked for
GetFileNames == IdsOf("data") \cup {UnlistedName("data"), MalformedName}

\* http.NewRequest("GET", url, nil) returns an error
NewRequestFails(url) == url = getDataFileUrl(MalformedName)

\* FileManager.LoadFile: os.ReadFile of <dataPath>/<file>.json
LoadFile(fs, file) ==
    LET filePath == FilePath(CategoryDir("data"), file) IN
    IF filePath \in DOMAIN fs
    THEN {[data |-> fs[filePath], err |-> Nil],
          [data |-> NoBytes, err |-> [kind |-> "read", path |-> filePath]]}
    ELSE {[data |-> NoBytes, err |-> [kind |-> "notexist", path |-> filePath]],
          [data |-> NoBytes, err |-> [kind |-> "open", path |-> filePath]]}

\* a test that takes every error of LoadFile for a missing file
IsNotExist_AnyError(err) == err # Nil

\* os.IsNotExist(err)
IsNotExist(err) == err.kind = "notexist"

\* the locals of a call of GetFile(file, downloadIfMissing) that starts
GetFileBegin(file, downloadIfMissing) ==
    /\ gfile' = file /\ gdl' = downloadIfMissing
    /\ gpc' = "load" /\ gdata' = NoBytes /\ gerr' = Nil
    /\ gresp' = NoResponse /\ gbody' = "none" /\ gcloses' = 0 /\ gprinted' = FALSE
    /\ gret' = NoData /\ gdisk0' = [dirs |-> dirs, files |-> files]
    /\ requests' = EmptyMap

GetFileCall ==
    /\ Idle
    /\ \E file \in GetFileNames : \E downloadIfMissing \in BOOLEAN :
          GetFileBegin(file, downloadIfMissing)
    /\ UNCHANGED << diskVars, lpc, lcat, lids, ftask, flocal, result, errs, lret,
                    served, saveVars, catVars, prev, fwg >>

\* data, err := rl.fm.LoadFile(file) and the test that follows it; without
\* a download, the return
GetFileLoad ==
    /\ gpc = "load"
    /\ \E r \in LoadFile(files, gfile) :
          /\ gdata' = r.data /\ gerr' = r.err
          /\ IF r.err # Nil /\ IsNotExist(r.err) /\ gdl
             THEN gpc' = "newreq" /\ gret' = gret
             ELSE /\ gpc' = "done"
                  /\ gret' = IF r.err # Nil
                             THEN [data |-> NoBytes,
                                   err |-> LoadFileError("data", gfile, r.err)]
                             ELSE [data |-> r.data, err |-> Nil]
    /\ UNCHANGED << diskVars, loadVars, saveVars, catVars, prev, gfile, gdl,
                    gresp, gbody, gcloses, gprinted, gdisk0 >>


\* loadFileFromUrl: http.NewRequest
UrlNewRequest ==
    /\ gpc = "newreq"
    /\ IF NewRequestFails(getDataFileUrl(gfile))
       THEN /\ gdata' = NoBytes /\ gerr' = [kind |-> "failed to create request"]
            /\ gpc' = "fetched"
       ELSE /\ gpc' = "do" /\ UNCHANGED << gdata, gerr >>
    /\ UNCHANGED << diskVars, loadVars, saveVars, catVars, prev, gfile, gdl,
                    gresp, gbody, gcloses, gprinted, gret, gdisk0 >>

\* loadFileFromUrl: client.Do(req); with a response, Body.Close is deferred
UrlClientDo ==
    /\ gpc = "do"
    /\ \E resp \in Responses :
          /\ requests' = Sent(requests, getDataFileUrl(gfile))
          /\ gresp' = resp
          /\ IF resp.kind = "transport"
             THEN /\ gdata' = loadFileFromUrl(resp).data
                  /\ gerr' = loadFileFromUrl(resp).err
                  /\ gbody' = gbody /\ gpc' = "fetched"
             ELSE /\ gbody' = "open" /\ gpc' = "read"
                  /\ UNCHANGED << gdata, gerr >>
    /\ UNCHANGED << diskVars, lpc, lcat, lids, ftask, flocal, result, errs, lret,
                    served, saveVars, catVars, prev, gfile, gdl, gcloses,
                    gprinted, gret, gdisk0, fwg >>

\* a loadFileFromUrl that closes the body on the success path only
UrlReadAll_CloseOnSuccess ==
    /\ gpc = "read"
    /\ gdata' = loadFileFromUrl(gresp).data /\ gerr' = loadFileFromUrl(gresp).err
    /\ gpc' = IF gresp.kind = "read" THEN "fetched" ELSE "close"
    /\ UNCHANGED << diskVars, loadVars, saveVars, catVars, prev, gfile, gdl,
                    gresp, gbody, gcloses, gprinted, gret, gdisk0 >>

\* loadFileFromUrl: io.ReadAll(resp.Body) and the return statement that
\* follows it, on either branch; the deferred call is still to run
UrlReadAll ==
    /\ gpc = "read"
    /\ gdata' = loadFileFromUrl(gresp).data /\ gerr' = loadFileFromUrl(gresp).err
    /\ gpc' = "close"
    /\ UNCHANGED << diskVars, loadVars, saveVars, catVars, prev, gfile, gdl,
                    gresp, gbody, gcloses, gprinted, gret, gdisk0 >>

\* loadFileFromUrl: the deferred Body.Close(), whose error is printed and
\* dropped; loadFileFromUrl has returned
UrlBodyClose ==
    /\ gpc = "close"
    /\ gbody' = "closed" /\ gcloses' = gcloses + 1
    /\ \E closeFails \in BOOLEAN : gprinted' = closeFails
    /\ gpc' = "fetched"
    /\ UNCHANGED << diskVars, loadVars, saveVars, catVars, prev, gfile, gdl,
                    gdata, gerr, gresp, gret, gdisk0 >>

\* a GetFile that saves the download with SaveLangFiles
GetFileSave_AsLangFile ==
    /\ gpc = "fetched"
    /\ IF gerr # Nil
       THEN /\ gret' = [data |-> NoBytes, err |-> gerr] /\ gpc' = "done"
            /\ UNCHANGED << diskVars, saveVars >>
       ELSE /\ SaveFilesBegin("langs", << gfile >>, << gdata >>)
            /\ gpc' = "saving" /\ gret' = gret
    /\ UNCHANGED << loadVars, catVars, prev, gfile, gdl, gdata, gerr, gresp,
                    gbody, gcloses, gprinted, gdisk0 >>

\* GetFile after loadFileFromUrl: return its error, or call SaveDataFiles
GetFileSave ==
    /\ gpc = "fetched"
    /\ IF gerr # Nil
       THEN /\ gret' = [data |-> NoBytes, err |-> gerr] /\ gpc' = "done"
            /\ UNCHANGED << diskVars, saveVars >>
       ELSE /\ SaveFilesBegin("data", << gfile >>, << gdata >>)
            /\ gpc' = "saving" /\ gret' = gret
    /\ UNCHANGED << loadVars, catVars, prev, gfile, gdl, gdata, gerr, gresp,
                    gbody, gcloses, gprinted, gdisk0 >>

\* GetFile after SaveDataFiles: return its error, or the data
GetFileReturn ==
    /\ gpc = "saving" /\ spc = "done"
    /\ gret' = IF sret.err # Nil THEN [data |-> NoBytes, err |-> sret.err]
                                 ELSE [data |-> gdata, err |-> Nil]
    /\ gpc' = "done"
    /\ UNCHANGED << diskVars, loadVars, saveVars, catVars, prev, gfile, gdl,
                    gdata, gerr, gresp, gbody, gcloses, gprinted, gdisk0 >>

\* the caller calls GetFile once more; prev keeps what the first call was
\* asked, what the host sent and what the call returned
GetFileAgain ==
    /\ lpc = "idle" /\ gpc = "done" /\ prev = << >>
    /\ prev' = << [file |-> gfile, dl |-> gdl, resp |-> gresp, ret |-> gret,
                   disk0 |-> gdisk0] >>
    /\ \E file \in GetFileNames : \E downloadIfMissing \in BOOLEAN :
          GetFileBegin(file, downloadIfMissing)
    /\ UNCHANGED << diskVars, lpc, lcat, lids, ftask, flocal, result, errs, lret,
                    served, saveVars, catVars, fwg >>

NextGetFile ==
    \/ GetFileCall
    \/ GetFileLoad
    \/ UrlNewRequest
    \/ UrlClientDo
    \/ UrlReadAll
    \/ UrlBodyClose
    \/ GetFileSave
    \/ \E i \in 1..MaxBatch : TaskRun(i)
    \/ \E i \in 1..MaxBatch : TaskLock(i)
    \/ \E i \in 1..MaxBatch : TaskSetErr(i)
    \/ \E i \in 1..MaxBatch : TaskSetPath(i)
    \/ \E i \in 1..MaxBatch : TaskUnlock(i)
    \/ SaveReturn
    \/ GetFileReturn
    \/ GetFileAgain

SpecGetFile == Init /\ [][NextGetFile]_vars

(***************************************************************************)
(* A caller of the catalog: it holds a string, asks IsValid about it and   *)
(* asks for the enumeration.  dirs0 and files0 keep the disk it started on.*)
(***************************************************************************)
\* strings a caller can hold: the names, the languages, and near misses
CatalogInputs ==
    Range(GetGenshinDataFileNames) \cup Range(AllLanguages)
      \cup {"", "avatarexcelconfigdata", "AvatarExcelConfigData.json",
            UnlistedName("data"), UnlistedName("langs")}

InitCatalog ==
    /\ \E disk \in {FreshDisk, MirrorDisk} :
          /\ dirs = disk.dirs /\ files = disk.files
          /\ dirs0 = disk.dirs /\ files0 = disk.files
    /\ LoadIdle /\ GetIdle /\ prev = << >>
    /\ spc = "idle" /\ scat = "langs" /\ snames = << >> /\ sdata = << >>
    /\ stask = << >> /\ terr = << >> /\ mu = 0 /\ saveErr = Nil
    /\ filePaths = EmptyMap /\ sret = NoRet /\ wres = << >> /\ errLog = << >>
    /\ swg = 0
    /\ cf \in CatalogInputs /\ cvalid = "none" /\ cnames = << >>

\* cf.IsValid()
CallIsValid ==
    /\ cvalid' = IF IsValid(cf) THEN "true" ELSE "false"
    /\ UNCHANGED << diskVars, loadVars, saveVars, getVars, prev, cf, cnames >>

\* GetGenshinDataFileNames()
CallGetNames ==
    /\ cnames' = GetGenshinDataFileNames
    /\ UNCHANGED << diskVars, loadVars, saveVars, getVars, prev, cf, cvalid >>

NextCatalog == CallIsValid \/ CallGetNames

SpecCatalog == InitCatalog /\ [][NextCatalog]_vars

(***************************************************************************)
(* A caller that repeats a save call: the same category, names and data,   *)
(* and the same writes failing in the same way.  prev keeps what the first *)
(* call started from, returned and left on the disk.                       *)
(***************************************************************************)
\* the second call: the arguments of the call that has just returned
SaveReplayCall ==
    /\ lpc = "idle" /\ spc = "done" /\ prev = << >>
    /\ prev' = << [dirs0 |-> dirs0, files0 |-> files0, wres |-> wres,
                   sret |-> sret, dirs |-> dirs, files |-> files] >>
    /\ SaveFilesBegin(scat, snames, sdata)
    /\ UNCHANGED << loadVars, catVars, getVars >>

\* goroutine i of a repeated call meets the write outcome it met before
ReplayTaskRun(i) ==
    /\ TaskRun(i)
    /\ (prev # << >> /\ i \in DOMAIN prev[1].wres) => wres'[i] = prev[1].wres[i]

ReplayNext ==
    \/ SaveCall
    \/ SaveReplayCall
    \/ \E i \in 1..MaxBatch : ReplayTaskRun(i)
    \/ \E i \in 1..MaxBatch : TaskLock(i)
    \/ \E i \in 1..MaxBatch : TaskSetErr(i)
    \/ \E i \in 1..MaxBatch : TaskSetPath(i)
    \/ \E i \in 1..MaxBatch : TaskUnlock(i)
    \/ SaveReturn

SpecReplay == Init /\ [][ReplayNext]_vars

(***************************************************************************)
(* Properties of the fetch stage.                                          *)
(***************************************************************************)
\* the GET for identifier id of the running call was answered
Answered(id) == UrlOf(lcat, id) \in DOMAIN served
AnswerOf(id) == served[UrlOf(lcat, id)]

\* the fetch of identifier id failed
FetchFailed(id) == Answered(id) /\ AnswerOf(id).kind # "ok"

\* C1: the outcome stored at index i is the outcome of the fetch issued for
\* identifiers[i], whatever the order in which the goroutines finish, and the
\* payload handed to the save stage at index i is the one fetched for
\* identifiers[i].
C1_PositionalOutcome ==
    /\ \A i \in DOMAIN ftask :
          ftask[i] = "done" =>
             /\ Answered(lids[i])
             /\ IF AnswerOf(lids[i]).kind = "ok"
                THEN result[i] = AnswerOf(lids[i]).body /\ errs[i] = Nil
                ELSE result[i] = NoBytes /\ errs[i] # Nil
                       /\ errs[i] = loadFileFromUrl(AnswerOf(lids[i])).err
    /\ \A i \in DOMAIN ftask :
          ftask[i] # "done" => result[i] = NoBytes /\ errs[i] = Nil
    /\ lpc = "saving" =>
          /\ snames = lids
          /\ Len(sdata) = Len(lids)
          /\ \A i \in DOMAIN lids : sdata[i] = AnswerOf(lids[i]).body

\* the second goroutine has stored its payload while the first is still out
C1_Witness ==
    /\ lpc = "fetch" /\ Len(lids) = 2
    /\ ftask[2] = "done" /\ ftask[1] = "run"
    /\ result[2] = ObjX1 /\ AnswerOf(lids[2]).body = ObjX1
    /\ result[1] = NoBytes

\* the smallest index whose fetch failed, 0 when none did
FirstFailedIndex ==
    IF \E i \in DOMAIN lids : FetchFailed(lids[i])
    THEN CHOOSE i \in DOMAIN lids :
            FetchFailed(lids[i]) /\ \A j \in 1..(i - 1) : ~FetchFailed(lids[j])
    ELSE 0

\* C2: when fetches fail, the call returns the error of the failing identifier
\* with the smallest index, wrapped with that identifier's name.
C2_FirstErrorInIndexOrder ==
    (lpc = "done" /\ FirstFailedIndex # 0) =>
        LET k == FirstFailedIndex IN
        /\ lret.name = lids[k]
        /\ lret.cause = loadFileFromUrl(AnswerOf(lids[k])).err
        /\ lret = LoadFileError(lcat, lids[k], loadFileFromUrl(AnswerOf(lids[k])).err)

\* both fetches failed, in different ways; the error of the first is returned
C2_Witness ==
    /\ lpc = "done" /\ Len(lids) = 2
    /\ FetchFailed(lids[1]) /\ FetchFailed(lids[2])
    /\ AnswerOf(lids[1]).kind = "read" /\ AnswerOf(lids[2]).kind = "transport"
    /\ lret.name = lids[1]

\* some fetch of the running call has failed
AnyFetchFailed == \E i \in DOMAIN lids : FetchFailed(lids[i])

\* C3: a call in which a fetch fails never invokes the save stage and never
\* creates or modifies a directory or a file: no step of the call that ends
\* with a failed fetch on record touches the disk or starts the save stage.
C3_NoSaveAfterFailedFetch ==
    [][ (lpc = "fetch" /\ AnyFetchFailed')
           => (dirs' = dirs /\ files' = files /\ spc' = "idle" /\ lpc' # "saving") ]_vars

\* one of two fetches failed, the other brought a valid payload; the call is
\* over and the save stage never ran
C3_Witness ==
    /\ lpc = "done" /\ Len(lids) = 2
    /\ ~FetchFailed(lids[1]) /\ FetchFailed(lids[2])
    /\ result[1] = ObjX1
    /\ spc = "idle" /\ lret # Nil

\* C4: the call does not get past the join while a fetch goroutine is still
\* running, also when a sibling has failed; every goroutine has issued its
\* request and stored its outcome by then.
C4_JoinBarrier ==
    lpc \in {"saving", "done"} =>
        /\ Len(ftask) = Len(lids)
        /\ \A i \in DOMAIN lids : ftask[i] = "done" /\ Answered(lids[i])

\* the first fetch failed, and the call returned only after the sibling had
\* completed and stored its payload
C4_Witness ==
    /\ lpc = "done" /\ Len(lids) = 2
    /\ errs[1] # Nil /\ ftask[2] = "done" /\ errs[2] = Nil /\ result[2] = ObjX1

(***************************************************************************)
(* Properties of the save stage.                                           *)
(***************************************************************************)
SaveDir == CategoryDir(scat)
SavePath(i) == FilePath(SaveDir, snames[i])

\* saveFiles got past validatePath and started its goroutines
TasksLaunched == spc \in {"tasks", "done"} /\ Len(stask) = Len(snames)
                   /\ sret.err # CreateDirError(SaveDir)

\* the file at path is in fs what it is in gs
SameFile(fs, gs, path) ==
    IF path \in DOMAIN gs
    THEN path \in DOMAIN fs /\ fs[path] = gs[path]
    ELSE path \notin DOMAIN fs

\* C5: when every payload is well-formed and every write succeeds, the call
\* returns a nil error and a path for every identifier, and the file of
\* identifiers[i] holds exactly payloads[i].
C5_RoundTrip ==
    (/\ spc = "done" /\ TasksLaunched
     /\ \A i \in DOMAIN snames : WellFormed(sdata[i]) /\ wres[i] = "ok")
    => /\ sret.err = Nil /\ ~sret.nilMap
       /\ DOMAIN sret.paths = Range(snames)
       /\ \A i \in DOMAIN snames :
            /\ sret.paths[snames[i]] = SavePath(i)
            /\ SavePath(i) \in DOMAIN files
            /\ files[SavePath(i)] = sdata[i]

\* two different well-formed payloads were saved by one call
C5_Witness ==
    /\ spc = "done" /\ TasksLaunched /\ Len(snames) = 2
    /\ sdata = << ObjX1, Arr2 >>
    /\ wres = << "ok", "ok" >>
    /\ sret.err = Nil /\ files[SavePath(2)] = Arr2

\* C6: an item whose payload is not well-formed JSON is never written (its file
\* is what it was when the call started), gets an error naming it recorded and
\* no path; an item whose path is recorded has its payload on disk, verbatim,
\* at <categoryDir>/<identifier>.json.
C6_ValidationGatesWrite ==
    TasksLaunched =>
      \A i \in DOMAIN snames :
        /\ ~WellFormed(sdata[i]) =>
             /\ SameFile(files, files0, SavePath(i))
             /\ snames[i] \notin DOMAIN filePaths
             /\ wres[i] \in {"none", "invalid"}
             /\ stask[i] \in {"unlock", "done"} =>
                  \E k \in DOMAIN errLog :
                     errLog[k] = InvalidJSONError(snames[i])
        /\ snames[i] \in DOMAIN filePaths =>
             /\ WellFormed(sdata[i])
             /\ filePaths[snames[i]] = SavePath(i)
             /\ SavePath(i) \in DOMAIN files
             /\ files[SavePath(i)] = sdata[i]

\* a file saved by an earlier call is offered a malformed payload and stays
\* as it was, while the sibling is written and its path recorded
C6_Witness ==
    /\ spc = "done" /\ TasksLaunched /\ Len(snames) = 2
    /\ sdata[1] = NotJson /\ sdata[2] = Arr2
    /\ SavePath(1) \in DOMAIN files0 /\ files[SavePath(1)] = ObjX1
    /\ snames[2] \in DOMAIN filePaths /\ files[SavePath(2)] = Arr2
    /\ sret.err = InvalidJSONError(snames[1])

\* C10: a call never fails on directory creation when the directory is there
\* already, and after a successful call every identifier's file holds the
\* payload of that call, whatever an earlier call had left in it.
C10_IdempotentDirOverwrite ==
    /\ (spc \in {"tasks", "done"} /\ SaveDir \in dirs0)
          => /\ sret.err # CreateDirError(SaveDir)
             /\ dirs = dirs0
    /\ (spc = "done" /\ TasksLaunched /\ sret.err = Nil)
          => \A i \in DOMAIN snames :
                SavePath(i) \in DOMAIN files /\ files[SavePath(i)] = sdata[i]

\* a call on the disk of an earlier run overwrote a file that run had written
C10_Witness ==
    /\ spc = "done" /\ TasksLaunched /\ sret.err = Nil
    /\ SaveDir \in dirs0
    /\ Len(snames) >= 1
    /\ SavePath(1) \in DOMAIN files0 /\ files0[SavePath(1)] = ObjX1
    /\ sdata[1] = Arr2 /\ files[SavePath(1)] = Arr2

\* C7: for fixed inputs (names, data, the disk at the start, which directory
\* and file operations fail) the returned error, the returned path map and the
\* files on disk afterwards do not depend on the order in which the goroutines
\* finish: a call repeated on the same inputs ends as the first one did.
C7_OrderIndependent ==
    (/\ spc = "done" /\ prev # << >>
     /\ prev[1].dirs0 = dirs0 /\ prev[1].files0 = files0
     /\ prev[1].dirs = dirs
     /\ (prev[1].sret.err = CreateDirError(SaveDir)) = (sret.err = CreateDirError(SaveDir))
     /\ prev[1].wres = wres)
    => /\ sret = prev[1].sret
       /\ files = prev[1].files

\* the items of the call that failed, and those that were written
FailedNames == {snames[i] : i \in {j \in DOMAIN snames : wres[j] # "ok"}}
WrittenNames == {snames[i] : i \in {j \in DOMAIN snames : wres[j] = "ok"}}

\* the identifiers an error of saveFiles names: the name it prints, or the
\* name in the path of the wrapped *PathError
ErrorNames(err) ==
    IF err.kind = "invalid JSON data for file" THEN {err.name}
    ELSE IF err.kind = "failed to save file"
         THEN {n \in Range(snames) : FilePath(SaveDir, n) = err.cause.path}
    ELSE {}

\* C8: all-or-nothing: when the call returns an error because an item failed
\* validation or write, no file written by the call remains on disk, and the
\* error names a failing item.
C8_AllOrNothing ==
    (spc = "done" /\ TasksLaunched /\ sret.err # Nil)
    => /\ \A i \in DOMAIN snames :
             wres[i] = "ok" => SameFile(files, files0, SavePath(i))
       /\ ErrorNames(sret.err) \subseteq FailedNames
       /\ ErrorNames(sret.err) # {}

\* C9: best-effort-with-report: when items fail, the returned error names
\* every failing identifier and only those, and the returned path map holds
\* exactly the items that were written.
C9_BestEffortReport ==
    (spc = "done" /\ TasksLaunched /\ FailedNames # {})
    => /\ ErrorNames(sret.err) = FailedNames
       /\ DOMAIN sret.paths = WrittenNames
       /\ \A i \in DOMAIN snames :
             wres[i] = "ok" => sret.paths[snames[i]] = SavePath(i)

(***************************************************************************)
(* Properties of the catalog and of the requests.                          *)
(***************************************************************************)
\* the identifier belongs to the catalog of its category
InCatalog(cat, id) ==
    IF cat = "langs" THEN id \in Range(AllLanguages) ELSE IsValid(id)

\* C11: a batch fetch called with an identifier that is not in the catalog of
\* its category issues no network request for any identifier of the batch
\* and fails with a validation error.
C11_UnlistedFailsBeforeAnyRequest ==
    (lpc # "idle" /\ \E i \in DOMAIN lids : ~InCatalog(lcat, lids[i])) =>
        /\ requests = EmptyMap
        /\ lpc = "done" => lret # Nil /\ lret.kind = "validation error"

\* the host answered, with a status that is not a success
NonSuccess(resp) == resp.kind # "transport" /\ resp.status # StatusOK

\* C12: a fetch whose response carries a non-success status is reported as a
\* failure for its identifier: the body is not stored as a payload and the
\* batch does not reach the save stage.
C12_NonSuccessStatusIsFailure ==
    \A i \in DOMAIN ftask :
        (ftask[i] = "done" /\ NonSuccess(AnswerOf(lids[i]))) =>
            /\ errs[i] # Nil /\ result[i] = NoBytes
            /\ lpc # "saving" /\ spc = "idle"

\* C14: after the join, every index has exactly one of its two outcome
\* fields populated: the byte buffer with a nil error, or the error with an
\* empty buffer, for every answer of the host, the empty body included.
C14_ExactlyOneOutcome ==
    (lpc \in {"fetch", "saving", "done"} /\ FetchJoined) =>
        \A i \in DOMAIN lids :
            \/ result[i] # NoBytes /\ errs[i] = Nil
            \/ result[i] = NoBytes /\ errs[i] # Nil

\* C15: a save call returns a path map and a nil error, or no map and an
\* error; every entry of a returned map is for a name of the batch whose
\* payload is well-formed JSON and whose write succeeded, its path is
\* <category directory>/<name>.json, and a file exists at that path.
C15_PathMapOnlyForWritten ==
    spc = "done" =>
        /\ sret.nilMap <=> sret.err # Nil
        /\ sret.nilMap => sret.paths = EmptyMap
        /\ \A name \in DOMAIN sret.paths :
              /\ \E i \in DOMAIN snames :
                    snames[i] = name /\ WellFormed(sdata[i]) /\ wres[i] = "ok"
              /\ sret.paths[name] = DirectoryPath \o "/" \o scat \o "/" \o name \o ".json"
              /\ sret.paths[name] \in DOMAIN files

\* a call that wrote both files of its batch and returned their paths
C15_Witness ==
    /\ spc = "done" /\ Len(snames) = 2
    /\ ~sret.nilMap /\ sret.err = Nil
    /\ DOMAIN sret.paths = {snames[1], snames[2]}
    /\ \A i \in 1..2 : wres[i] = "ok" /\ files[sret.paths[snames[i]]] = sdata[i]

\* the error of the save stage inside an error the loader returned
Unwrapped(err) ==
    IF err.kind \in {"failed to save lang files", "failed to save data files"}
    THEN err.cause ELSE err

\* the identifiers an error of a batch call names
NamesOf(err) ==
    IF err.kind \in {"failed to load lang file", "failed to load data file"}
    THEN {err.name}
    ELSE ErrorNames(Unwrapped(err))

\* the error says why: it wraps the error below it, or it is the verdict of
\* the validation itself
CarriesCause(err) ==
    "cause" \in DOMAIN Unwrapped(err)
      \/ Unwrapped(err).kind = "invalid JSON data for file"

\* C16: every error a batch fetch or a batch save of a non-empty batch
\* returns names an identifier of the batch that failed and carries the
\* underlying cause.
C16_ErrorsNameTheIdentifier ==
    /\ (spc = "done" /\ sret.err # Nil /\ snames # << >>) =>
          /\ NamesOf(sret.err) # {} /\ NamesOf(sret.err) \subseteq Range(snames)
          /\ CarriesCause(sret.err)
    /\ (lpc = "done" /\ lret # Nil) =>
          /\ NamesOf(lret) # {} /\ NamesOf(lret) \subseteq Range(lids)
          /\ CarriesCause(lret)

\* C17: IsValid(f) is true exactly for the names that
\* GetGenshinDataFileNames enumerates, the enumeration holds no name twice,
\* and neither operation changes the disk or the state of the loader and of
\* the file manager.
C17_CatalogClosed ==
    /\ cvalid # "none" =>
          (cvalid = "true" <=> \E k \in 1..Len(GetGenshinDataFileNames) :
                                     GetGenshinDataFileNames[k] = cf)
    /\ cnames # << >> =>
          \A j, k \in DOMAIN cnames : cnames[j] = cnames[k] => j = k
    /\ dirs = dirs0 /\ files = files0
    /\ LoadIdle /\ GetIdle /\ spc = "idle" /\ sret = NoRet /\ filePaths = EmptyMap

\* both operations have been applied, IsValid to the name of a weapon file
C17_Witness ==
    /\ cf = WeaponStatCurveFile /\ cvalid = "true"
    /\ Len(cnames) = Len(GetGenshinDataFileNames) /\ cf \in Range(cnames)

\* C20: a batch fetch of N identifiers sends exactly N GETs, one for the URL
\* of each index: while the goroutines run, the GETs sent are those of the
\* goroutines that have fetched, one each; after the join every URL of the
\* batch has had one GET, failed fetches included, and no other URL has.
C20_OneGetPerIndex ==
    lpc # "idle" =>
        /\ DOMAIN requests =
              {UrlOf(lcat, lids[i]) : i \in {j \in DOMAIN lids : ftask[j] # "run"}}
        /\ \A url \in DOMAIN requests : requests[url] = 1
        /\ FetchJoined =>
              \A i \in DOMAIN lids :
                  /\ UrlOf(lcat, lids[i]) \in DOMAIN requests
                  /\ requests[UrlOf(lcat, lids[i])] = 1

\* a batch of two has returned after the fetch of its first identifier
\* failed: each URL has had its one GET
C20_Witness ==
    /\ lpc = "done" /\ Len(lids) = 2
    /\ errs[1] # Nil /\ errs[2] = Nil
    /\ requests[UrlOf(lcat, lids[1])] = 1 /\ requests[UrlOf(lcat, lids[2])] = 1

(***************************************************************************)
(* Properties of GetFile and of loadFileFromUrl inside it.                 *)
(***************************************************************************)
\* client.Do has returned a response
ResponseObtained == gresp.kind \in {"ok", "read"}

\* loadFileFromUrl has returned to GetFile
FetchReturned == gpc \in {"fetched", "saving", "done"}

\* C13: once loadFileFromUrl has returned, a response body that was obtained
\* has been closed exactly once, whether the read succeeded or failed and
\* whether or not Close reported an error, and no body exists when the
\* request failed before a response; a body is open only between client.Do
\* and the return.
C13_BodyClosedOnce ==
    /\ gcloses <= 1
    /\ gbody = "open" => gpc \in {"read", "close"} /\ gcloses = 0
    /\ FetchReturned =>
          IF ResponseObtained
          THEN gbody = "closed" /\ gcloses = 1
          ELSE gbody = "none" /\ gcloses = 0

\* the read of the body failed, Close failed too, and the body is closed
C13_Witness ==
    /\ gpc = "fetched" /\ gresp.kind = "read" /\ gerr # Nil
    /\ gprinted /\ gbody = "closed" /\ gcloses = 1

\* <dataPath>/<file>.json of the file GetFile was asked for
GetPath == DirectoryPath \o "/data/" \o gfile \o ".json"

\* the file was on the disk when GetFile was called
PresentAtCall == GetPath \in DOMAIN gdisk0.files

\* the disk is as it was when GetFile was called
DiskAsAtCall == dirs = gdisk0.dirs /\ files = gdisk0.files

\* C18, as claimed: GetFile sends a GET only when the file is absent and
\* downloadIfMissing is true; for a file that exists it returns the local
\* content and sends nothing; for an absent file with downloadIfMissing
\* false it returns an error, sends nothing and leaves the disk as it was.
C18_LocalContentWithoutRequest ==
    gpc # "idle" =>
        /\ requests # EmptyMap => ~PresentAtCall /\ gdl
        /\ (PresentAtCall /\ gpc = "done") =>
              /\ requests = EmptyMap
              /\ gret.err = Nil /\ gret.data = gdisk0.files[GetPath]
        /\ (~PresentAtCall /\ ~gdl /\ gpc = "done") =>
              gret.err # Nil /\ requests = EmptyMap /\ DiskAsAtCall

\* C18, amended: GetFile sends a GET only when the file is absent and
\* downloadIfMissing is true; for a file that exists it sends nothing,
\* leaves the disk as it was, and returns the local content or, when the
\* file cannot be read, the error of the read; for an absent file with
\* downloadIfMissing false it returns an error, sends nothing and leaves
\* the disk as it was.
C18_RequestOnlyForMissingFile ==
    gpc # "idle" =>
        /\ requests # EmptyMap => ~PresentAtCall /\ gdl
        /\ (PresentAtCall /\ gpc = "done") =>
              /\ requests = EmptyMap /\ DiskAsAtCall
              /\ gret.err = Nil => gret.data = gdisk0.files[GetPath]
              /\ gret.err # Nil =>
                    /\ gret.data = NoBytes
                    /\ gret.err.kind = "failed to load data file"
                    /\ gret.err.name = gfile /\ gret.err.cause.kind = "read"
        /\ (~PresentAtCall /\ ~gdl /\ gpc = "done") =>
              gret.err # Nil /\ requests = EmptyMap /\ DiskAsAtCall

\* GetFile(file, true) has returned for a file that exists and could not be
\* read: an error, and no GET
C18_Witness ==
    /\ gpc = "done" /\ gdl /\ PresentAtCall
    /\ gret.err # Nil /\ gret.err.cause.kind = "read"
    /\ requests = EmptyMap /\ DiskAsAtCall

\* GetFile(file, true) has returned without error for a file that was absent
Downloaded == gpc = "done" /\ ~PresentAtCall /\ gdl /\ gret.err = Nil

\* the download failed, or what came is not well-formed JSON
DownloadUnusable ==
    \/ gerr.kind \in {"failed to create request", "error downloading data file",
                       "error reading lang file"}
    \/ gresp.kind = "ok" /\ ~WellFormed(gresp.body)

\* the call before this one was a successful download of the same file
AfterDownload ==
    /\ prev # << >> /\ prev[1].file = gfile /\ prev[1].dl /\ prev[1].ret.err = Nil
    /\ FilePath(CategoryDir("data"), prev[1].file) \notin DOMAIN prev[1].disk0.files

\* what C19 says of the call itself: a successful download returns the bytes
\* the host sent and leaves them in <dataDir>/<file>.json; a failed download
\* or a download that is not valid JSON gives an error and creates no file
DownloadStored ==
    /\ Downloaded =>
          /\ gret.data = gresp.body
          /\ GetPath \in DOMAIN files /\ files[GetPath] = gresp.body
    /\ (gpc = "done" /\ ~PresentAtCall /\ gdl /\ DownloadUnusable) =>
          gret.err # Nil /\ GetPath \notin DOMAIN files

\* C19, as claimed: the above, and any later GetFile of the same file
\* returns the same bytes without a network request.
C19_DownloadThenLocal ==
    /\ DownloadStored
    /\ AfterDownload =>
          /\ requests = EmptyMap
          /\ gpc = "done" => gret.err = Nil /\ gret.data = prev[1].ret.data

\* C19, amended: the above, and any later GetFile of the same file sends no
\* network request and returns the same bytes or, when the file cannot be
\* read, the error of the read.
C19_DownloadThenLocalOrReadError ==
    /\ DownloadStored
    /\ AfterDownload =>
          /\ requests = EmptyMap
          /\ gpc = "done" =>
                /\ gret.err = Nil => gret.data = prev[1].ret.data
                /\ gret.err # Nil =>
                      /\ gret.err.kind = "failed to load data file"
                      /\ gret.err.cause.kind = "read"

\* a download has succeeded and the next GetFile of the same file has
\* returned the downloaded bytes from the disk
C19_Witness ==
    /\ AfterDownload /\ gpc = "done" /\ ~gdl
    /\ prev[1].resp.kind = "ok" /\ prev[1].resp.body = ObjX1
    /\ gret.err = Nil /\ gret.data = ObjX1 /\ files[GetPath] = ObjX1
    /\ requests = EmptyMap

(***************************************************************************)
(* Who writes the shared outcome state of a batch call.                    *)
(***************************************************************************)
\* the fetch stage: slot idx of result and errs holds nothing until goroutine
\* idx has stored into it and then holds what that goroutine fetched, and
\* the caller scans errs and hands result on only when every goroutine is done
FetchSlotsOwned ==
    /\ \A idx \in DOMAIN ftask :
          IF ftask[idx] = "done"
          THEN result[idx] = flocal[idx].data /\ errs[idx] = flocal[idx].err
          ELSE result[idx] = NoBytes /\ errs[idx] = Nil
    /\ lpc \in {"saving", "done"} => \A idx \in DOMAIN ftask : ftask[idx] = "done"

\* the goroutines of the save stage that have assigned saveErr
SaveErrWriters ==
    {i \in DOMAIN snames : \E k \in DOMAIN errLog : errLog[k] = terr[i]}

\* the save stage: the entry of filePaths under a name is the one its own
\* goroutine has put there, and saveErr has been assigned by one goroutine at
\* most
SaveSlotsOwned ==
    TasksLaunched =>
        /\ \A i \in DOMAIN snames :
              snames[i] \in DOMAIN filePaths =>
                  /\ stask[i] \in {"unlock", "done"} /\ wres[i] = "ok"
                  /\ filePaths[snames[i]] = SavePath(i)
        /\ Cardinality(SaveErrWriters) <= 1

\* C21: in the fetch stage and in the save stage of a batch call no location
\* of the shared outcome state is written by two different goroutines, and
\* the caller reads it only after the join
C21_SingleWriterPerSlot == FetchSlotsOwned /\ SaveSlotsOwned

(***************************************************************************)
(* The items of a save batch do not wait for or give way to each other.    *)
(***************************************************************************)
\* C22: when saveFiles has returned, every item of the batch has been
\* attempted: an item with well-formed JSON has been handed to os.WriteFile,
\* and an item whose write succeeded is on the disk with its payload, also
\* when a sibling failed validation or its write
C22_ItemsIndependent ==
    (spc = "done" /\ TasksLaunched) =>
        \A i \in DOMAIN snames :
            /\ wres[i] # "none"
            /\ WellFormed(sdata[i]) => wres[i] \in {"ok", "open", "write"}
            /\ wres[i] = "ok" =>
                  /\ SavePath(i) \in DOMAIN files
                  /\ files[SavePath(i)] = sdata[i]

\* a batch of two has returned an error for its first item and the second
\* item is on the disk
C22_Witness ==
    /\ spc = "done" /\ Len(snames) = 2 /\ Len(stask) = 2
    /\ wres[1] \in {"invalid", "open", "write"} /\ wres[2] = "ok"
    /\ sret.err # Nil
    /\ SavePath(2) \in DOMAIN files /\ files[SavePath(2)] = sdata[2]
    /\ SavePath(2) \notin DOMAIN files0

(***************************************************************************)
(* The two stages of LoadLangFiles / LoadDataFiles follow each other.      *)
(***************************************************************************)
\* a fetch goroutine of the call has not finished
FetchRunning == \E i \in DOMAIN ftask : ftask[i] # "done"

\* a write goroutine of the call has not finished
WriteRunning == \E i \in DOMAIN stask : stask[i] # "done"

\* C23: while a fetch goroutine of the call is running no step creates a
\* directory, writes a file or starts saveFiles; the save stage is entered
\* with every fetch goroutine finished; and the call returns with every
\* write goroutine of its save stage finished
C23_SaveAfterFetchJoin ==
    [][/\ FetchRunning => (dirs' = dirs /\ files' = files /\ spc' = "idle")
       /\ lpc' = "saving" => ~FetchRunning'
       /\ (lpc # "done" /\ lpc' = "done") =>
              \/ spc' = "idle"
              \/ spc' = "done" /\ ~WriteRunning']_vars

\* a call for two files has fetched both, written both and returned nil
C23_Witness ==
    /\ lpc = "done" /\ lret = Nil /\ Len(lids) = 2
    /\ ~FetchRunning /\ spc = "done" /\ Len(stask) = 2 /\ ~WriteRunning
    /\ \A i \in DOMAIN lids :
          /\ SavePath(i) \in DOMAIN files
          /\ files[SavePath(i)] = result[i]
    /\ dirs # dirs0

(***************************************************************************)
(* Every batch call returns.                                               *)
(***************************************************************************)
\* the fetch goroutines that have not reached their wg.Done()
FetchPending == {i \in DOMAIN ftask : ftask[i] # "done"}

\* the write goroutines that have not reached their wg.Done()
WritePending == {i \in DOMAIN stask : stask[i] # "done"}

\* each goroutine has signalled its wait group once when it is done and not
\* before: the counts are the numbers of unfinished goroutines
SignalledOnce ==
    /\ fwg = Cardinality(FetchPending)
    /\ swg = Cardinality(WritePending)

\* a goroutine that has not done its request or its validation and write
\* can do it whatever its siblings are doing, and a call that has not
\* returned can always take a step
NeverStuck ==
    /\ \A i \in DOMAIN ftask :
          (lpc = "fetch" /\ ftask[i] = "run") => ENABLED FetchDo(i)
    /\ \A i \in DOMAIN stask :
          (spc = "tasks" /\ stask[i] = "start") => ENABLED TaskRun(i)
    /\ (lpc \in {"fetch", "saving"} \/ spc = "tasks") => ENABLED NextFair

\* C24: when every request and every write completes, a call of
\* LoadLangFiles/LoadDataFiles and a call of SaveLangFiles/SaveDataFiles
\* returns: every goroutine signals the wait group exactly once on each of
\* its exit paths, no goroutine is held up by a sibling's I/O, and there is
\* no deadlock on the mutex or the wait group
C24_CallsReturn ==
    /\ [](SignalledOnce /\ NeverStuck)
    /\ (lpc = "fetch") ~> (lpc = "done")
    /\ (spc = "tasks") ~> (spc = "done")

\* a save of two items in which both goroutines left by an early return has
\* come back with the wait group at zero and the mutex free
C24_Witness ==
    /\ spc = "done" /\ Len(stask) = 2 /\ WritePending = {}
    /\ wres[1] = "invalid" /\ wres[2] \in {"open", "write"}
    /\ Len(errLog) = 2 /\ swg = 0 /\ mu = 0 /\ sret.err # Nil

(***************************************************************************)
(* The mutex of saveFiles.                                                 *)
(***************************************************************************)
\* the goroutines between their mu.Lock() and their mu.Unlock()
InCritical(st) == {i \in DOMAIN st : st[i] \in {"setErr", "setPath", "unlock"}}

\* C25: a goroutine of saveFiles assigns saveErr or an entry of filePaths
\* only while it holds mu, so one goroutine at most is changing them; and a
\* goroutine that finishes, after its write or after the early return of a
\* failed validation or write, has released mu
C25_WritesUnderMutex ==
    [][/\ InCritical(stask') = (IF mu' = 0 THEN {} ELSE {mu'})
       /\ (spc = "tasks" /\ (errLog' # errLog \/ saveErr' # saveErr
                                 \/ filePaths' # filePaths)) =>
              /\ mu # 0 /\ mu' = mu
              /\ stask[mu] \in {"setErr", "setPath"} /\ stask'[mu] = "unlock"
              /\ \A j \in DOMAIN stask : j # mu => stask'[j] = stask[j]
       /\ \A i \in DOMAIN stask :
              (spc = "tasks" /\ stask[i] # "done" /\ stask'[i] = "done") =>
                  mu = i /\ mu' = 0
       /\ spc' = "done" => mu' = 0]_vars

\* goroutine 1 has assigned saveErr and still holds mu while goroutine 2
\* waits at its mu.Lock()
C25_Witness ==
    /\ spc = "tasks" /\ Len(stask) = 2
    /\ mu = 1 /\ stask[1] = "unlock" /\ errLog = << terr[1] >> /\ saveErr = terr[1]
    /\ stask[2] \in {"lockErr", "lockPath"}

====
